---- MODULE Spec2Model ----
(***************************************************************************)
(* A model of steamdb_offline.py: library discovery from                   *)
(* libraryfolders.vdf, appmanifest parsing, the get_games enumeration and  *)
(* the standalone script that dumps the result to a JSON file.             *)
(*                                                                         *)
(* Text is modelled as a sequence of one-character strings, a dict as a    *)
(* function whose DOMAIN is its key set, and an optional value as a        *)
(* sequence of length 0 or 1.                                              *)
(***************************************************************************)
EXTENDS Naturals, Sequences, FiniteSets, TLC

VARIABLES
    vdf,            \* libraryfolders.vdf in the root: <<>> absent, <<data>> present
    dirs,           \* directories that exist on disk (canonical spelling)
    files,          \* manifest slot -> <<>> absent, <<lines>> present
    pc,             \* position of the running script
    library_paths,  \* get_games: result of __get_library_paths
    li,             \* get_games: index of the outer loop in library_paths
    globbed,        \* get_games: list returned by glob.glob for library li
    fi,             \* get_games: index of the inner loop in globbed
    info,           \* outcome of the last __parse_acf call
    games,          \* get_games: the local list under construction
    origin,         \* for each element of games, the path and file it came from
    parsed,         \* log of the __parse_acf calls made so far
    ret,            \* <<>> until get_games returns, then <<games>>
    error,          \* "none" or the name of the uncaught exception
    outfile,        \* my_steam_local_games_full.json: <<>> absent, <<content>>
    removals        \* manifests removed from disk during the run

vars == <<vdf, dirs, files, pc, library_paths, li, globbed, fi, info, games,
          origin, parsed, ret, error, outfile, removals>>

-----------------------------------------------------------------------------
(* Bounds of the model.                                                    *)

MaxAcfLines == 3
MaxVdfLines == 2
MaxRemovals == 1
MaxFiles == 2

-----------------------------------------------------------------------------
(* Text primitives of the Python runtime, as the code uses them.           *)

Quote == "\""
Backslash == "\\"

Whitespace == {" ", "\t", "\n"}

Digits == {"0", "1", "2", "3", "4", "5", "6", "7", "8", "9"}

Range(s) == {s[i] : i \in 1..Len(s)}

\* str.startswith
StartsWith(s, p) ==
    /\ Len(p) <= Len(s)
    /\ SubSeq(s, 1, Len(p)) = p

\* str.endswith
EndsWith(s, p) ==
    /\ Len(p) <= Len(s)
    /\ SubSeq(s, Len(s) - Len(p) + 1, Len(s)) = p

\* str.strip(): drops leading and trailing whitespace
Strip(s) ==
    LET keep == {i \in 1..Len(s) : s[i] \notin Whitespace}
    IN  IF keep = {} THEN <<>>
        ELSE LET lo == CHOOSE i \in keep : \A j \in keep : i <= j
                 hi == CHOOSE i \in keep : \A j \in keep : j <= i
             IN  SubSeq(s, lo, hi)

LowerChar(c) ==
    CASE c = "A" -> "a" [] c = "B" -> "b" [] c = "C" -> "c" [] c = "D" -> "d"
      [] c = "E" -> "e" [] c = "G" -> "g" [] c = "H" -> "h" [] c = "K" -> "k"
      [] c = "M" -> "m" [] c = "N" -> "n" [] c = "O" -> "o" [] c = "P" -> "p"
      [] c = "R" -> "r" [] c = "S" -> "s" [] c = "T" -> "t" [] c = "W" -> "w"
      [] c = "X" -> "x" [] c = "Z" -> "z"
      [] OTHER -> c

\* str.lower()
Lower(s) == [i \in 1..Len(s) |-> LowerChar(s[i])]

\* str.split(sep) for a one-character separator: the pieces between the
\* occurrences of sep, so n occurrences give n + 1 pieces
RECURSIVE SplitFrom(_, _, _, _)
SplitFrom(s, sep, i, cur) ==
    IF i > Len(s) THEN <<cur>>
    ELSE IF s[i] = sep THEN <<cur>> \o SplitFrom(s, sep, i + 1, <<>>)
    ELSE SplitFrom(s, sep, i + 1, Append(cur, s[i]))

Split(s, sep) == SplitFrom(s, sep, 1, <<>>)

\* str.replace('\\\\', '\\'): every non-overlapping doubled backslash, scanning
\* from the left, becomes a single one
RECURSIVE ReplaceFrom(_, _)
ReplaceFrom(s, i) ==
    IF i > Len(s) THEN <<>>
    ELSE IF i < Len(s) /\ s[i] = Backslash /\ s[i + 1] = Backslash
         THEN <<Backslash>> \o ReplaceFrom(s, i + 2)
    ELSE <<s[i]>> \o ReplaceFrom(s, i + 1)

Replace(s) == ReplaceFrom(s, 1)

-----------------------------------------------------------------------------
(* __parse_acf                                                             *)

KeyAppid ==
    <<"\"", "a", "p", "p", "i", "d", "\"">>
KeyName ==
    <<"\"", "n", "a", "m", "e", "\"">>
KeyInstalldir ==
    <<"\"", "i", "n", "s", "t", "a", "l", "l", "d", "i", "r", "\"">>
KeyLastUpdated ==
    <<"\"", "L", "a", "s", "t", "U", "p", "d", "a", "t", "e", "d", "\"">>
KeyStateFlags ==
    <<"\"", "S", "t", "a", "t", "e", "F", "l", "a", "g", "s", "\"">>
KeySizeOnDisk ==
    <<"\"", "S", "i", "z", "e", "O", "n", "D", "i", "s", "k", "\"">>

\* the if/elif chain of lines 122-133: prefix tested, field assigned
AcfKeys ==
    << <<KeyAppid, "steam_id">>,
       <<KeyName, "name">>,
       <<KeyInstalldir, "installdir">>,
       <<KeyLastUpdated, "last_updated">>,
       <<KeyStateFlags, "stateflags">>,
       <<KeySizeOnDisk, "size_on_disk">> >>

EmptyDict == <<>>

\* d[k] = v on a dict
DictSet(d, k, v) == [x \in (DOMAIN d) \cup {k} |-> IF x = k THEN v ELSE d[x]]

\* the branch of the if/elif chain a stripped line takes: the index of the
\* first key it starts with, 0 when it starts with none
AcfBranch(line) ==
    LET hits == {n \in 1..Len(AcfKeys) : StartsWith(line, AcfKeys[n][1])}
    IN  IF hits = {} THEN 0
        ELSE CHOOSE n \in hits : \A m \in hits : n <= m

\* SplitField with the index one too low: line.split('"')[2]
SplitFieldOffByOne(line) ==
    LET parts == Split(line, Quote)
    IN  IF Len(parts) < 3 THEN <<>> ELSE <<parts[3]>>

\* SplitField hardened: an empty value where the index is out of range
SplitFieldLenient(line) ==
    LET parts == Split(line, Quote)
    IN  IF Len(parts) < 4 THEN << <<>> >> ELSE <<parts[4]>>

\* line.split('"')[3]: <<>> when the index is out of range, else <<value>>
SplitField(line) ==
    LET parts == Split(line, Quote)
    IN  IF Len(parts) < 4 THEN <<>> ELSE <<parts[4]>>

\* the loop of lines 120-133 from line i on, with the dict built so far
RECURSIVE ParseLines(_, _, _)
ParseLines(lines, i, d) ==
    IF i > Len(lines) THEN [err |-> "none", rec |-> d]
    ELSE LET line == Strip(lines[i])
             n == AcfBranch(line)
         IN  IF n = 0 THEN ParseLines(lines, i + 1, d)
             ELSE IF Len(SplitField(line)) = 0
                  THEN [err |-> "IndexError", rec |-> EmptyDict]
             ELSE ParseLines(lines, i + 1,
                             DictSet(d, AcfKeys[n][2], SplitField(line)[1]))

\* __parse_acf on a path whose file holds `lines`
ParseAcf(lines) == ParseLines(lines, 1, EmptyDict)

-----------------------------------------------------------------------------
(* Paths and the disk.  The default root is a Windows path, so the model   *)
(* follows os.path on Windows for paths without a drive letter: the        *)
(* separator is the backslash and the file system ignores letter case.     *)

Sep == Backslash

\* os.path.join of two components
Join2(a, b) ==
    IF Len(b) > 0 /\ b[1] = Sep THEN b
    ELSE IF Len(a) = 0 \/ a[Len(a)] = Sep THEN a \o b
    ELSE a \o <<Sep>> \o b

\* os.path.join of three components
Join3(a, b, c) == Join2(Join2(a, b), c)

SteamappsName ==
    <<"s", "t", "e", "a", "m", "a", "p", "p", "s">>
CommonName ==
    <<"c", "o", "m", "m", "o", "n">>
GlobPrefix ==
    <<"a", "p", "p", "m", "a", "n", "i", "f", "e", "s", "t", "_">>
GlobSuffix ==
    <<".", "a", "c", "f">>

\* self.main_steamapps_path
MainPath ==
    <<"\\", "R", "\\", "s", "t", "e", "a", "m", "a", "p", "p", "s">>

\* the directory a path string names on a case-insensitive file system
Resolve(p) == Lower(p)

\* os.path.exists of a directory path
DirExists(p) == Resolve(p) \in dirs

RootDir == Resolve(MainPath)
GDir ==
    <<"\\", "g", "\\", "s", "t", "e", "a", "m", "a", "p", "p", "s">>
NDir ==
    <<"\\", "n", "\\", "s", "t", "e", "a", "m", "a", "p", "p", "s">>

Acf1 ==
    <<"a", "p", "p", "m", "a", "n", "i", "f", "e", "s", "t", "_", "1", ".", "a", "c", "f">>
Acf2 ==
    <<"a", "p", "p", "m", "a", "n", "i", "f", "e", "s", "t", "_", "2", ".", "a", "c", "f">>
OtherFile ==
    <<"a", "p", "p", "m", "a", "n", "i", "f", "e", "s", "t", "_", "3", ".", "t", "x", "t">>

\* the places of the disk where the model may put a file: <<directory, name>>
Slots == {<<RootDir, Acf1>>, <<RootDir, Acf2>>, <<GDir, Acf1>>, <<RootDir, OtherFile>>}

NoFiles == [s \in Slots |-> <<>>]

\* fnmatch of a file name against "appmanifest_*.acf"
GlobMatch(name) ==
    /\ Len(name) >= Len(GlobPrefix) + Len(GlobSuffix)
    /\ StartsWith(name, GlobPrefix)
    /\ EndsWith(name, GlobSuffix)

\* the names glob.glob(os.path.join(lib, "appmanifest_*.acf")) finds
GlobNames(lib) ==
    {s[2] : s \in {t \in Slots : /\ t[1] = Resolve(lib)
                                 /\ Resolve(lib) \in dirs
                                 /\ Len(files[t]) = 1
                                 /\ GlobMatch(t[2])}}

\* the lists holding each element of S once: the orders in which a set, a
\* directory listing or list(set(...)) may come out
Orders(S) ==
    {q \in [1..Cardinality(S) -> S] : \A i, j \in 1..Cardinality(S) : q[i] = q[j] => i = j}

-----------------------------------------------------------------------------
(* __get_library_paths                                                     *)

PathKey ==
    <<"\"", "p", "a", "t", "h", "\"">>

\* first index >= i of data whose character is not in S, Len(data) + 1 if none
SkipWhile(data, i, S) ==
    LET stop == {j \in i..Len(data) : data[j] \notin S}
    IN  IF stop = {} THEN Len(data) + 1
        ELSE CHOOSE j \in stop : \A k \in stop : j <= k

\* where the key part of a pattern ends when matched at i (the index after
\* its closing quote), 0 when it does not match: "path" for the new format,
\* "\d+" for the old one
KeyEnd(data, i, kind) ==
    IF kind = "new"
    THEN IF i + Len(PathKey) - 1 <= Len(data) /\ SubSeq(data, i, i + Len(PathKey) - 1) = PathKey
         THEN i + Len(PathKey) ELSE 0
    ELSE IF data[i] # Quote THEN 0
    ELSE LET j == SkipWhile(data, i + 1, Digits)
         IN  IF j > i + 1 /\ j <= Len(data) /\ data[j] = Quote THEN j + 1 ELSE 0

\* re.match of  key \s+ "(.*?)"  at index i: <<>> when it fails, else
\* <<captured group, index after the match>>
MatchAt(data, i, kind) ==
    LET k == KeyEnd(data, i, kind)
    IN  IF k = 0 THEN <<>>
        ELSE LET q == SkipWhile(data, k, Whitespace)
             IN  IF ~(q > k /\ q <= Len(data) /\ data[q] = Quote) THEN <<>>
                 ELSE LET e == SkipWhile(data, q + 1, {c \in Range(data) : c \notin {Quote, "\n"}})
                      IN  IF e <= Len(data) /\ data[e] = Quote
                          THEN <<SubSeq(data, q + 1, e - 1), e + 1>>
                          ELSE <<>>

\* re.findall: the groups of the non-overlapping matches, scanning from i
RECURSIVE FindAllFrom(_, _, _)
FindAllFrom(data, i, kind) ==
    IF i > Len(data) THEN <<>>
    ELSE LET m == MatchAt(data, i, kind)
         IN  IF Len(m) = 0 THEN FindAllFrom(data, i + 1, kind)
             ELSE <<m[1]>> \o FindAllFrom(data, m[2], kind)

FindAll(data, kind) == FindAllFrom(data, 1, kind)

\* line 97-98: the candidate directory of a raw path
AppFolder(raw) == Join2(Strip(Replace(raw)), SteamappsName)

\* the loop of lines 96-100 over the raw paths from index i on
RECURSIVE CollectPaths(_, _, _)
CollectPaths(raws, i, lib_paths) ==
    IF i > Len(raws) THEN lib_paths
    ELSE LET app_folder == AppFolder(raws[i])
         IN  IF DirExists(app_folder) /\ app_folder \notin Range(lib_paths)
             THEN CollectPaths(raws, i + 1, Append(lib_paths, app_folder))
             ELSE CollectPaths(raws, i + 1, lib_paths)

\* lines 94-100: lib_paths before line 101
CollectedPaths(steamapps_path, data) ==
    CollectPaths(FindAll(data, "new") \o FindAll(data, "old"), 1, <<steamapps_path>>)

\* the lists __get_library_paths may return: [root] without an index file,
\* else list(set(lib_paths)) in any order
GetLibraryPaths(steamapps_path) ==
    IF Len(vdf) = 0 THEN {<<steamapps_path>>}
    ELSE Orders(Range(CollectedPaths(steamapps_path, vdf[1])))

-----------------------------------------------------------------------------
(* The inputs the model draws the disk from.                               *)

\* lines of a libraryfolders.vdf: new-format and old-format entries, with
\* escaped and unescaped separators, and lines that are no entry
VdfLines ==
    { <<"\t", "\"", "p", "a", "t", "h", "\"", "\t", "\t", "\"", "\\", "\\", "G", "\"">>,
      <<"\t", "\"", "1", "\"", "\t", "\t", "\"", "\\", "\\", "g", "\"">>,
      <<"\"", "p", "a", "t", "h", "\"", " ", "\"", "\\", "\\", "R", "\"">>,
      <<"\"", "2", "\"", "\t", "\"", " ", "\\", "G", " ", "\"">>,
      <<"\"", "i", "d", "\"", "\t", "\"", "1", "2", "\"">>,
      <<"\"", "1", "\"", "\t", "\"", "\\", "\\", "N", "\"">>,
      <<"{">> }

\* lines of an appmanifest: the six recognized keys, a repeated key, lines
\* with two and with three quote characters, and lines that start with no key
LnAppid10 ==
    <<"\t", "\"", "a", "p", "p", "i", "d", "\"", "\t", "\t", "\"", "1", "0", "\"">>
LnAppid20 ==
    <<"\"", "a", "p", "p", "i", "d", "\"", " ", "\"", "2", "0", "\"">>
LnName ==
    <<"\t", "\"", "n", "a", "m", "e", "\"", "\t", "\t", "\"", "A", "b", "\"">>
LnNameWorks ==
    <<"\"", "n", "a", "m", "e", "\"", " ", "\"", "S", "t", "e", "a", "m", "W", "o", "r", "k", "s", "\"">>
LnInstalldir ==
    <<"\"", "i", "n", "s", "t", "a", "l", "l", "d", "i", "r", "\"", " ", "\"", "d", "\"">>
LnLastUpdated ==
    <<"\"", "L", "a", "s", "t", "U", "p", "d", "a", "t", "e", "d", "\"", " ", "\"", "7", "\"">>
LnStateFlags ==
    <<"\"", "S", "t", "a", "t", "e", "F", "l", "a", "g", "s", "\"", " ", "\"", "4", "\"">>
LnSizeOnDisk ==
    <<"\"", "S", "i", "z", "e", "O", "n", "D", "i", "s", "k", "\"", " ", "\"", "0", "\"">>
LnTwoQuotes ==
    <<"\"", "a", "p", "p", "i", "d", "\"">>
LnThreeQuotes ==
    <<"\"", "n", "a", "m", "e", "\"", " ", "\"", "X", " ">>
LnAppidThreeQuotes ==
    <<"\"", "a", "p", "p", "i", "d", "\"", "\t", "\"", "3", "0">>
LnBuildid ==
    <<"\"", "b", "u", "i", "l", "d", "i", "d", "\"", " ", "\"", "1", "\"">>
LnBraceName ==
    <<"{", " ", "\"", "n", "a", "m", "e", "\"", " ", "\"", "Z", "\"">>

AcfLines ==
    { LnAppid10, LnName, LnInstalldir, LnLastUpdated, LnStateFlags, LnSizeOnDisk,
      LnTwoQuotes, LnThreeQuotes, LnBuildid, LnAppid20, LnBraceName }

\* the manifests of the enumeration: a complete one, one without a name
\* whose appid line has three quote characters, a Steamworks
\* redistributable, one without an appid, one whose appid line has two quote
\* characters, and one that holds no recognized line
FullManifest == <<LnAppid10, LnName, LnInstalldir>>

Manifests ==
    { FullManifest,
      <<LnAppidThreeQuotes, LnInstalldir>>,
      <<LnAppid20, LnNameWorks>>,
      <<LnName>>,
      <<LnTwoQuotes>>,
      <<LnBuildid>> }

SeqsUpTo(S, n) == UNION {[1..k -> S] : k \in 0..n}

\* f.read() of a file made of these lines, each ended by a newline
RECURSIVE VdfText(_)
VdfText(lines) ==
    IF Len(lines) = 0 THEN <<>>
    ELSE Head(lines) \o <<"\n">> \o VdfText(Tail(lines))

NoInfo == [err |-> "none", rec |-> EmptyDict]

\* the script before its first statement
Fresh ==
    /\ pc = "start"
    /\ library_paths = <<>>
    /\ li = 0
    /\ globbed = <<>>
    /\ fi = 0
    /\ info = NoInfo
    /\ games = <<>>
    /\ origin = <<>>
    /\ parsed = <<>>
    /\ ret = <<>>
    /\ error = "none"
    /\ outfile = <<>>
    /\ removals = 0

-----------------------------------------------------------------------------
(* SpecLib: __get_library_paths alone, on index files of up to MaxVdfLines *)
(* lines.                                                                  *)

LibInit ==
    /\ vdf \in {<<>>} \cup {<<VdfText(ls)>> : ls \in SeqsUpTo(VdfLines, MaxVdfLines)}
    /\ dirs \in {{RootDir} \cup D : D \in SUBSET {GDir, NDir}}
    /\ files = NoFiles
    /\ Fresh

Discover ==
    /\ pc = "start"
    /\ library_paths' \in GetLibraryPaths(MainPath)
    /\ pc' = "discovered"
    /\ UNCHANGED <<vdf, dirs, files, li, globbed, fi, info, games, origin,
                   parsed, ret, error, outfile, removals>>

LibNext == Discover

SpecLib == LibInit /\ [][LibNext]_vars

-----------------------------------------------------------------------------
(* SpecAcf: __parse_acf alone, on manifests of up to MaxAcfLines lines.    *)

AcfSlot == <<RootDir, Acf1>>

AcfInit ==
    /\ vdf = <<>>
    /\ dirs = {RootDir}
    /\ files \in {[NoFiles EXCEPT ![AcfSlot] = c] :
                    c \in {<<>>} \cup {<<ls>> : ls \in SeqsUpTo(AcfLines, MaxAcfLines)}}
    /\ Fresh

\* __parse_acf of the manifest in slot s, its existence test and its read
\* taken together
ParseCall(s) ==
    IF Len(files[s]) = 0 THEN NoInfo ELSE ParseAcf(files[s][1])

ParseOnly ==
    /\ pc = "start"
    /\ info' = ParseCall(AcfSlot)
    /\ pc' = "parsed"
    /\ UNCHANGED <<vdf, dirs, files, library_paths, li, globbed, fi, games,
                   origin, parsed, ret, error, outfile, removals>>

AcfNext == ParseOnly

SpecAcf == AcfInit /\ [][AcfNext]_vars

-----------------------------------------------------------------------------
(* get_games: the body of the inner loop, lines 162-176.                   *)

Steamworks ==
    <<"s", "t", "e", "a", "m", "w", "o", "r", "k", "s">>
LaunchPrefix ==
    <<"s", "t", "e", "a", "m", ":", "/", "/", "r", "u", "n", "/">>
LogoPrefix ==
    <<"h", "t", "t", "p", "s", ":", "/", "/", "c", "d", "n", ".", "s", "t", "e", "a", "m", "s", "t", "a", "t", "i", "c", ".", "c", "o", "m", "/", "s", "t", "e", "a", "m", "/", "a", "p", "p", "s", "/">>
LogoSuffix ==
    <<"/", "l", "o", "g", "o", ".", "p", "n", "g">>
BannerPrefix ==
    <<"h", "t", "t", "p", "s", ":", "/", "/", "c", "d", "n", ".", "c", "l", "o", "u", "d", "f", "l", "a", "r", "e", ".", "s", "t", "e", "a", "m", "s", "t", "a", "t", "i", "c", ".", "c", "o", "m", "/", "s", "t", "e", "a", "m", "/", "a", "p", "p", "s", "/">>
BannerSuffix ==
    <<"/", "h", "e", "a", "d", "e", "r", ".", "j", "p", "g">>
BigBannerSuffix ==
    <<"/", "l", "i", "b", "r", "a", "r", "y", "_", "h", "e", "r", "o", ".", "j", "p", "g">>
VerticalSuffix ==
    <<"/", "l", "i", "b", "r", "a", "r", "y", "_", "6", "0", "0", "x", "9", "0", "0", ".", "j", "p", "g">>
HorizontalSuffix ==
    <<"/", "c", "a", "p", "s", "u", "l", "e", "_", "2", "3", "1", "x", "8", "7", ".", "j", "p", "g">>
InfoSuffix ==
    <<"/", "p", "a", "g", "e", "_", "b", "g", "_", "g", "e", "n", "e", "r", "a", "t", "e", "d", "_", "v", "6", "b", ".", "j", "p", "g">>

\* dict.get(k, default)
DictGet(d, k, default) == IF k \in DOMAIN d THEN d[k] ELSE default

\* IsSteamworks without the .lower()
IsSteamworksCaseSensitive(rec) == StartsWith(DictGet(rec, "name", <<>>), Steamworks)

\* line 165: the test that filters the Steamworks redistributables
IsSteamworks(rec) == StartsWith(Lower(DictGet(rec, "name", <<>>)), Steamworks)

\* lines 168-175 with `id` substituted for info['steam_id']
EnrichWith(steamapps_path, rec, id) ==
    LET d1 == DictSet(rec, "install_path",
                      Join3(steamapps_path, CommonName, DictGet(rec, "installdir", <<>>)))
        d2 == DictSet(d1, "launch_url", LaunchPrefix \o id)
        d3 == DictSet(d2, "logo", LogoPrefix \o id \o LogoSuffix)
        d4 == DictSet(d3, "banner", BannerPrefix \o id \o BannerSuffix)
        d5 == DictSet(d4, "big_banner", BannerPrefix \o id \o BigBannerSuffix)
        d6 == DictSet(d5, "vertical_banner", LogoPrefix \o id \o VerticalSuffix)
        d7 == DictSet(d6, "horizontal_banner", LogoPrefix \o id \o HorizontalSuffix)
    IN  DictSet(d7, "info_banner", BannerPrefix \o id \o InfoSuffix)

\* Enrich with the URLs built from an identifier that is not the record's
EnrichStaleId(steamapps_path, rec) == EnrichWith(steamapps_path, rec, <<"0">>)

\* Enrich with the URLs built from the library path
EnrichByPath(steamapps_path, rec) == EnrichWith(steamapps_path, rec, steamapps_path)

\* lines 168-175 on a record that has a steam_id
Enrich(steamapps_path, rec) == EnrichWith(steamapps_path, rec, rec["steam_id"])

\* LoopBody reading the identifier with info.get('steam_id', '')
LoopBodyDefaultId(steamapps_path, rec) ==
    IF DOMAIN rec = {}
    THEN [kind |-> "skip", err |-> "none", entry |-> EmptyDict]
    ELSE IF IsSteamworks(rec)
    THEN [kind |-> "skip", err |-> "none", entry |-> EmptyDict]
    ELSE [kind |-> "append", err |-> "none",
          entry |-> EnrichWith(steamapps_path, rec, DictGet(rec, "steam_id", <<>>))]

\* what lines 162-176 do with a parsed record: skip it, raise, or append
LoopBody(steamapps_path, rec) ==
    IF DOMAIN rec = {}
    THEN [kind |-> "skip", err |-> "none", entry |-> EmptyDict]
    ELSE IF IsSteamworks(rec)
    THEN [kind |-> "skip", err |-> "none", entry |-> EmptyDict]
    ELSE IF "steam_id" \notin DOMAIN rec
    THEN [kind |-> "raise", err |-> "KeyError", entry |-> EmptyDict]
    ELSE [kind |-> "append", err |-> "none", entry |-> Enrich(steamapps_path, rec)]

-----------------------------------------------------------------------------
(* Spec: the standalone script, lines 180-189, with get_games inlined, on  *)
(* a disk that holds up to MaxFiles manifests, and a file the glob pattern *)
(* does not match, and from which another process may remove up to         *)
(* MaxRemovals manifests while the script runs.                            *)

\* the index files of the enumeration: none, one extra library, and the
\* same library listed under two spellings
VdfChoices ==
    { <<>>,
      <<VdfText(<< <<"\t", "\"", "p", "a", "t", "h", "\"", "\t", "\t", "\"", "\\", "\\", "G", "\"">> >>)>>,
      <<VdfText(<< <<"\t", "\"", "p", "a", "t", "h", "\"", "\t", "\t", "\"", "\\", "\\", "G", "\"">>,
                   <<"\t", "\"", "1", "\"", "\t", "\t", "\"", "\\", "\\", "g", "\"">> >>)>> }

OtherSlot == <<RootDir, OtherFile>>

Init ==
    /\ vdf \in VdfChoices
    /\ dirs = {RootDir, GDir}
    /\ files \in {f \in [Slots -> {<<>>} \cup {<<m>> : m \in Manifests}] :
                    /\ Cardinality({s \in Slots \ {OtherSlot} : Len(f[s]) = 1}) <= MaxFiles
                    /\ f[OtherSlot] = <<FullManifest>>}
    /\ Fresh

Lib == library_paths[li]

\* the slot of the disk the manifest path of the inner loop names
CurSlot == <<Resolve(Lib), globbed[fi]>>

\* lines 157-158
GetGamesStart ==
    /\ pc = "start"
    /\ library_paths' \in GetLibraryPaths(MainPath)
    /\ games' = <<>>
    /\ li' = 1
    /\ pc' = "glob"
    /\ UNCHANGED <<vdf, dirs, files, globbed, fi, info, origin, parsed, ret,
                   error, outfile, removals>>

\* lines 159-160: the next library directory is globbed
NextLibrary ==
    /\ pc = "glob"
    /\ li <= Len(library_paths)
    /\ globbed' \in Orders(GlobNames(Lib))
    /\ fi' = 1
    /\ pc' = "check"
    /\ UNCHANGED <<vdf, dirs, files, library_paths, li, info, games, origin,
                   parsed, ret, error, outfile, removals>>

\* line 177 and line 182: the outer loop is over, get_games returns
ReturnGames ==
    /\ pc = "glob"
    /\ li > Len(library_paths)
    /\ ret' = <<games>>
    /\ pc' = "write"
    /\ UNCHANGED <<vdf, dirs, files, library_paths, li, globbed, fi, info,
                   games, origin, parsed, error, outfile, removals>>

\* line 160: the inner loop is over
EndOfLibrary ==
    /\ pc = "check"
    /\ fi > Len(globbed)
    /\ li' = li + 1
    /\ pc' = "glob"
    /\ UNCHANGED <<vdf, dirs, files, library_paths, globbed, fi, info, games,
                   origin, parsed, ret, error, outfile, removals>>

\* ParseAbsent without the existence test of line 116: open() raises
ParseAbsentRaises ==
    /\ pc = "check"
    /\ fi <= Len(globbed)
    /\ Len(files[CurSlot]) = 0
    /\ error' = "FileNotFoundError"
    /\ pc' = "aborted"
    /\ UNCHANGED <<vdf, dirs, files, library_paths, li, globbed, fi, info,
                   games, origin, parsed, ret, outfile, removals>>

\* lines 161, 114-117, 162-163: the path does not exist, __parse_acf
\* returns {} and the loop continues
ParseAbsent ==
    /\ pc = "check"
    /\ fi <= Len(globbed)
    /\ Len(files[CurSlot]) = 0
    /\ info' = NoInfo
    /\ parsed' = Append(parsed, [lib |-> Lib, file |-> globbed[fi],
                                 present |-> FALSE,
                                 lines |-> <<>>, out |-> NoInfo])
    /\ fi' = fi + 1
    /\ UNCHANGED <<vdf, dirs, files, pc, library_paths, li, globbed, games,
                   origin, ret, error, outfile, removals>>

\* lines 161, 114-116: the path exists
ParseExists ==
    /\ pc = "check"
    /\ fi <= Len(globbed)
    /\ Len(files[CurSlot]) = 1
    /\ pc' = "read"
    /\ UNCHANGED <<vdf, dirs, files, library_paths, li, globbed, fi, info,
                   games, origin, parsed, ret, error, outfile, removals>>

\* line 119: the file was removed after the existence test
OpenFails ==
    /\ pc = "read"
    /\ Len(files[CurSlot]) = 0
    /\ error' = "FileNotFoundError"
    /\ pc' = "aborted"
    /\ UNCHANGED <<vdf, dirs, files, library_paths, li, globbed, fi, info,
                   games, origin, parsed, ret, outfile, removals>>

\* lines 119-134: a line makes __parse_acf raise
ParseRaises ==
    /\ pc = "read"
    /\ Len(files[CurSlot]) = 1
    /\ LET out == ParseAcf(files[CurSlot][1])
       IN  /\ out.err # "none"
           /\ info' = out
           /\ parsed' = Append(parsed, [lib |-> Lib, file |-> globbed[fi],
                                        present |-> TRUE,
                                        lines |-> files[CurSlot][1], out |-> out])
           /\ error' = out.err
    /\ pc' = "aborted"
    /\ UNCHANGED <<vdf, dirs, files, library_paths, li, globbed, fi, games,
                   origin, ret, outfile, removals>>

\* lines 119-134 and 162-166: the record is skipped
ParseSkip ==
    /\ pc = "read"
    /\ Len(files[CurSlot]) = 1
    /\ LET out == ParseAcf(files[CurSlot][1])
       IN  /\ out.err = "none"
           /\ LoopBody(Lib, out.rec).kind = "skip"
           /\ info' = out
           /\ parsed' = Append(parsed, [lib |-> Lib, file |-> globbed[fi],
                                        present |-> TRUE,
                                        lines |-> files[CurSlot][1], out |-> out])
    /\ fi' = fi + 1
    /\ pc' = "check"
    /\ UNCHANGED <<vdf, dirs, files, library_paths, li, globbed, games,
                   origin, ret, error, outfile, removals>>

\* lines 119-134 and 162-169: the record has no steam_id
EnrichRaises ==
    /\ pc = "read"
    /\ Len(files[CurSlot]) = 1
    /\ LET out == ParseAcf(files[CurSlot][1])
       IN  /\ out.err = "none"
           /\ LoopBody(Lib, out.rec).kind = "raise"
           /\ info' = out
           /\ parsed' = Append(parsed, [lib |-> Lib, file |-> globbed[fi],
                                        present |-> TRUE,
                                        lines |-> files[CurSlot][1], out |-> out])
           /\ error' = LoopBody(Lib, out.rec).err
    /\ pc' = "aborted"
    /\ UNCHANGED <<vdf, dirs, files, library_paths, li, globbed, fi, games,
                   origin, ret, outfile, removals>>

\* lines 119-134 and 162-176: the record is enriched and appended
ParseAppend ==
    /\ pc = "read"
    /\ Len(files[CurSlot]) = 1
    /\ LET out == ParseAcf(files[CurSlot][1])
       IN  /\ out.err = "none"
           /\ LoopBody(Lib, out.rec).kind = "append"
           /\ info' = out
           /\ parsed' = Append(parsed, [lib |-> Lib, file |-> globbed[fi],
                                        present |-> TRUE,
                                        lines |-> files[CurSlot][1], out |-> out])
           /\ games' = Append(games, LoopBody(Lib, out.rec).entry)
           /\ origin' = Append(origin, [lib |-> Lib, file |-> globbed[fi]])
    /\ fi' = fi + 1
    /\ pc' = "check"
    /\ UNCHANGED <<vdf, dirs, files, library_paths, li, globbed, ret, error,
                   outfile, removals>>

\* lines 183-186: the returned list is written to the output file
WriteOutput ==
    /\ pc = "write"
    /\ outfile' = <<ret[1]>>
    /\ pc' = "print"
    /\ UNCHANGED <<vdf, dirs, files, library_paths, li, globbed, fi, info,
                   games, origin, parsed, ret, error, removals>>

\* lines 187-189: g['name'] of every entry is printed
PrintNames ==
    /\ pc = "print"
    /\ \A i \in 1..Len(ret[1]) : "name" \in DOMAIN ret[1][i]
    /\ pc' = "done"
    /\ UNCHANGED <<vdf, dirs, files, library_paths, li, globbed, fi, info,
                   games, origin, parsed, ret, error, outfile, removals>>

\* line 189: an entry has no name
PrintRaises ==
    /\ pc = "print"
    /\ \E i \in 1..Len(ret[1]) : "name" \notin DOMAIN ret[1][i]
    /\ error' = "KeyError"
    /\ pc' = "aborted"
    /\ UNCHANGED <<vdf, dirs, files, library_paths, li, globbed, fi, info,
                   games, origin, parsed, ret, outfile, removals>>

\* another process removes a manifest that the glob of the current library
\* found and the loop has not finished with (a removal at any other moment
\* is a disk that never held the file, or changes nothing the script reads)
RemoveManifest ==
    /\ pc \in {"check", "read"}
    /\ removals < MaxRemovals
    /\ \E k \in fi..Len(globbed) :
          /\ Len(files[<<Resolve(Lib), globbed[k]>>]) = 1
          /\ files' = [files EXCEPT ![<<Resolve(Lib), globbed[k]>>] = <<>>]
    /\ removals' = removals + 1
    /\ UNCHANGED <<vdf, dirs, pc, library_paths, li, globbed, fi, info, games,
                   origin, parsed, ret, error, outfile>>

Next ==
    \/ GetGamesStart
    \/ NextLibrary
    \/ ReturnGames
    \/ EndOfLibrary
    \/ ParseAbsent
    \/ ParseExists
    \/ OpenFails
    \/ ParseRaises
    \/ ParseSkip
    \/ EnrichRaises
    \/ ParseAppend
    \/ WriteOutput
    \/ PrintNames
    \/ PrintRaises
    \/ RemoveManifest

Spec == Init /\ [][Next]_vars

-----------------------------------------------------------------------------
(* The claims.                                                             *)

\* the indices of the quote characters of a line
QuoteIdx(line) == {i \in 1..Len(line) : line[i] = Quote}

\* the index of the n-th quote character of a line that has at least n
NthQuote(line, n) ==
    CHOOSE i \in QuoteIdx(line) : Cardinality({j \in QuoteIdx(line) : j <= i}) = n

\* the field names of the recognized keys a line starts with
FieldsOf(line) ==
    LET l == Strip(line)
    IN  {AcfKeys[n][2] : n \in {m \in 1..Len(AcfKeys) : StartsWith(l, AcfKeys[m][1])}}

\* the text of a stripped line between its third quote character and its
\* fourth, or the end of the line when it has only three
AfterThirdQuote(line) ==
    LET l == Strip(line)
    IN  SubSeq(l, NthQuote(l, 3) + 1,
               IF Cardinality(QuoteIdx(l)) >= 4 THEN NthQuote(l, 4) - 1 ELSE Len(l))

\* the last line of a manifest that starts with the key of field f
LastLineOf(lines, f) ==
    lines[CHOOSE i \in 1..Len(lines) :
            /\ f \in FieldsOf(lines[i])
            /\ \A j \in 1..Len(lines) : f \in FieldsOf(lines[j]) => j <= i]

\* every line that starts with a recognized key has at least n quote characters
QuotedLines(lines, n) ==
    \A i \in 1..Len(lines) :
        FieldsOf(lines[i]) # {} => Cardinality(QuoteIdx(lines[i])) >= n

\* the record __parse_acf is to return for a manifest
RecordMatches(rec, lines) ==
    /\ DOMAIN rec = UNION {FieldsOf(lines[i]) : i \in 1..Len(lines)}
    /\ \A f \in DOMAIN rec : rec[f] = AfterThirdQuote(LastLineOf(lines, f))

\* the raw path of a line of the index file that is an entry, "path" or an
\* all-digits key followed by a quoted value: <<>> or <<raw path>>
VdfEntry(line) ==
    LET parts == Split(Strip(line), Quote)
    IN  IF /\ Len(parts) >= 5
           /\ Len(parts[1]) = 0
           /\ \/ parts[2] = <<"p", "a", "t", "h">>
              \/ Len(parts[2]) > 0 /\ Range(parts[2]) \subseteq Digits
           /\ Len(parts[3]) > 0
           /\ Range(parts[3]) \subseteq Whitespace
        THEN <<parts[4]>>
        ELSE <<>>

\* C1: for an index file that is present, the discovered list contains the
\* root, contains <p>\steamapps for every entry line's raw path p (doubled
\* backslashes made single, whitespace trimmed) whose steamapps directory
\* exists, and holds no directory string twice.
C1_DiscoverFindsEveryEntry ==
    (pc = "discovered" /\ Len(vdf) = 1) =>
        /\ MainPath \in Range(library_paths)
        /\ \A line \in Range(Split(vdf[1], "\n")) :
              Len(VdfEntry(line)) = 1 =>
                  LET cand == Join2(Strip(Replace(VdfEntry(line)[1])), SteamappsName)
                  IN  DirExists(cand) => cand \in Range(library_paths)
        /\ \A i, j \in 1..Len(library_paths) :
              library_paths[i] = library_paths[j] => i = j

\* C2: for an existing manifest whose recognized-key lines carry their quoted
\* value (four quote characters or more), __parse_acf returns a record whose
\* keys are exactly the field names of the keys that start a line, each
\* mapped to the text between the third and fourth quote character of its
\* line (the last such line when a key is repeated); lines that start with
\* no recognized key contribute nothing.
C2_ParseReturnsExactlyTheKeys ==
    (pc = "parsed" /\ Len(files[AcfSlot]) = 1 /\ QuotedLines(files[AcfSlot][1], 4)) =>
        /\ info.err = "none"
        /\ RecordMatches(info.rec, files[AcfSlot][1])

\* a manifest with two recognized keys and a line that starts with none
C2_Witness ==
    /\ pc = "parsed"
    /\ Len(files[AcfSlot]) = 1
    /\ QuotedLines(files[AcfSlot][1], 4)
    /\ Cardinality(DOMAIN info.rec) = 2
    /\ \E i \in 1..Len(files[AcfSlot][1]) : FieldsOf(files[AcfSlot][1][i]) = {}

\* the manifests __parse_acf has read so far
Reads == {i \in 1..Len(parsed) : parsed[i].present}

\* C3 as stated: a recognized-key line with fewer than four quote characters
\* makes the parse fail with IndexError, and get_games returns nothing.
C3_FewerThanFourQuotesRaise ==
    \A i \in Reads :
        ~QuotedLines(parsed[i].lines, 4) =>
            /\ parsed[i].out.err = "IndexError"
            /\ error = "IndexError"
            /\ pc = "aborted"
            /\ Len(ret) = 0

\* C3 amended: a recognized-key line with fewer than three quote characters
\* makes the parse fail with IndexError, which leaves get_games without a
\* return value, the entries of the manifests already processed included;
\* with three quote characters or more on every such line the parse does not
\* fail, and a line with exactly three stores the text after the third (the
\* record is compared when the read is the latest one of the log).
C3_FewerThanThreeQuotesRaise ==
    \A i \in Reads :
        IF QuotedLines(parsed[i].lines, 3)
        THEN /\ parsed[i].out.err = "none"
             /\ i = Len(parsed) => RecordMatches(parsed[i].out.rec, parsed[i].lines)
        ELSE /\ parsed[i].out.err = "IndexError"
             /\ error = "IndexError"
             /\ pc = "aborted"
             /\ Len(ret) = 0

\* the enumeration aborted on a malformed line after it had built an entry
C3_Witness ==
    /\ \E i \in Reads : ~QuotedLines(parsed[i].lines, 3)
    /\ error = "IndexError"
    /\ Len(games) >= 1
    /\ Len(ret) = 0

\* the name of a record, "" when it has none, in lower case
LowerName(rec) == Lower(IF "name" \in DOMAIN rec THEN rec["name"] ELSE <<>>)

\* C4: no entry of get_games has a name that starts with "steamworks" in any
\* letter case, and a manifest with such a name contributes no entry.
C4_NoSteamworksEntry ==
    /\ \A i \in 1..Len(games) : ~StartsWith(LowerName(games[i]), Steamworks)
    /\ \A i \in Reads :
          (parsed[i].out.err = "none" /\ StartsWith(LowerName(parsed[i].out.rec), Steamworks)) =>
              \A k \in 1..Len(origin) :
                  ~(origin[k].lib = parsed[i].lib /\ origin[k].file = parsed[i].file)

\* get_games returned after it had read a manifest named "SteamWorks"
C4_Witness ==
    /\ Len(ret) = 1
    /\ \E i \in Reads :
          /\ parsed[i].out.err = "none"
          /\ StartsWith(LowerName(parsed[i].out.rec), Steamworks)

\* the entries built so far, returned, and written
AllEntries ==
    Range(games) \cup (IF Len(ret) = 1 THEN Range(ret[1]) ELSE {})
                 \cup (IF Len(outfile) = 1 THEN Range(outfile[1]) ELSE {})

\* C5: in every entry each of the six asset URLs is its template with the
\* entry's own steam_id substituted, and launch_url is "steam://run/"
\* followed by that steam_id.
C5_UrlsFromOwnId ==
    \A e \in AllEntries :
        /\ e["launch_url"] = LaunchPrefix \o e["steam_id"]
        /\ e["logo"] = LogoPrefix \o e["steam_id"] \o LogoSuffix
        /\ e["banner"] = BannerPrefix \o e["steam_id"] \o BannerSuffix
        /\ e["big_banner"] = BannerPrefix \o e["steam_id"] \o BigBannerSuffix
        /\ e["vertical_banner"] = LogoPrefix \o e["steam_id"] \o VerticalSuffix
        /\ e["horizontal_banner"] = LogoPrefix \o e["steam_id"] \o HorizontalSuffix
        /\ e["info_banner"] = BannerPrefix \o e["steam_id"] \o InfoSuffix

\* get_games returned two entries with different identifiers
C5_Witness ==
    /\ Len(ret) = 1
    /\ \E i, j \in 1..Len(ret[1]) : ret[1][i]["steam_id"] # ret[1][j]["steam_id"]

UrlFields ==
    {"launch_url", "logo", "banner", "big_banner", "vertical_banner",
     "horizontal_banner", "info_banner"}

\* the install-subdirectory of an entry, "" when the manifest had none
InstallDir(e) == IF "installdir" \in DOMAIN e THEN e["installdir"] ELSE <<>>

SameIdAndDir(a, b) ==
    /\ a["steam_id"] = b["steam_id"]
    /\ InstallDir(a) = InstallDir(b)

\* C6 as stated: two entries with equal steam_id and equal installdir are
\* equal in all eight derived fields.
C6_DerivedFromIdAndDir ==
    \A i, j \in 1..Len(games) :
        SameIdAndDir(games[i], games[j]) =>
            /\ \A f \in UrlFields : games[i][f] = games[j][f]
            /\ games[i]["install_path"] = games[j]["install_path"]

\* C6 amended: two entries with equal steam_id and equal installdir are equal
\* in launch_url and the six asset URLs, and equal in install_path when their
\* manifests were found through the same library path; install_path is the
\* join of that library path, "common" and the installdir.
C6_DerivedFromIdDirAndLibrary ==
    \A i, j \in 1..Len(games) :
        /\ SameIdAndDir(games[i], games[j]) =>
              /\ \A f \in UrlFields : games[i][f] = games[j][f]
              /\ origin[i].lib = origin[j].lib =>
                    games[i]["install_path"] = games[j]["install_path"]
        /\ games[i]["install_path"] =
              Join2(Join2(origin[i].lib, CommonName), InstallDir(games[i]))

\* two entries of one library with the same identifier and installdir
C6_Witness ==
    \E i, j \in 1..Len(games) :
        /\ i # j
        /\ SameIdAndDir(games[i], games[j])
        /\ origin[i].lib = origin[j].lib

\* the values of the appid lines of a manifest
AppidValues(lines) ==
    {AfterThirdQuote(lines[i]) :
        i \in {k \in 1..Len(lines) : /\ "steam_id" \in FieldsOf(lines[k])
                                      /\ Cardinality(QuoteIdx(lines[k])) >= 3}}

\* the reads of the manifest an entry came from
ReadsOf(k) ==
    {i \in Reads : parsed[i].lib = origin[k].lib /\ parsed[i].file = origin[k].file}

\* C7: every entry has a steam_id taken from an appid line of its manifest,
\* and a manifest whose record is non-empty but has no steam_id yields no
\* entry.
C7_EntriesHaveAnId ==
    /\ Len(origin) = Len(games)
    /\ \A k \in 1..Len(games) :
          /\ "steam_id" \in DOMAIN games[k]
          /\ \E i \in ReadsOf(k) : games[k]["steam_id"] \in AppidValues(parsed[i].lines)
    /\ \A i \in Reads :
          (/\ parsed[i].out.err = "none"
           /\ DOMAIN parsed[i].out.rec # {}
           /\ "steam_id" \notin DOMAIN parsed[i].out.rec) =>
              \A k \in 1..Len(origin) : i \notin ReadsOf(k)

\* a manifest with a name and no appid was read, and no entry came of it
C7_Witness ==
    \E i \in Reads :
        /\ parsed[i].out.err = "none"
        /\ "name" \in DOMAIN parsed[i].out.rec
        /\ "steam_id" \notin DOMAIN parsed[i].out.rec
        /\ error = "KeyError"

C9_NoAbortAfterWrite ==
    /\ pc = "aborted" =>
          \/ Len(outfile) = 0
          \/ Len(ret) = 1 /\ outfile[1] = ret[1]
    /\ Len(outfile) = 1 => pc # "aborted"

\* the file on disk an entry came from
FileOf(k) == <<Resolve(origin[k].lib), origin[k].file>>

\* C10: when get_games returns, every matching file of every discovered
\* directory has been parsed, each file whose record is non-empty and not a
\* Steamworks one has exactly one entry, no file has two, and the entries of
\* one library directory are contiguous.
C10_OneEntryPerFile ==
    Len(ret) = 1 =>
        /\ \A n \in 1..Len(library_paths) :
              \A s \in Slots :
                  (s[1] = Resolve(library_paths[n]) /\ Len(files[s]) = 1 /\ GlobMatch(s[2])) =>
                      \E i \in 1..Len(parsed) :
                          parsed[i].lib = library_paths[n] /\ parsed[i].file = s[2]
        /\ \A i \in Reads :
              (DOMAIN parsed[i].out.rec # {} /\ ~StartsWith(LowerName(parsed[i].out.rec), Steamworks)) =>
                  Cardinality({k \in 1..Len(origin) :
                                  FileOf(k) = <<Resolve(parsed[i].lib), parsed[i].file>>}) = 1
        /\ \A k, m \in 1..Len(origin) : FileOf(k) = FileOf(m) => k = m
        /\ \A k, m \in 1..Len(origin) :
              (k < m /\ FileOf(k)[1] = FileOf(m)[1]) =>
                  \A x \in k..m : FileOf(x)[1] = FileOf(k)[1]

====
